---- MODULE Spec2Model ----
(***************************************************************************)
(* Model of generate_dashboard.py: the status classification, the monthly  *)
(* interval generator, the issue processor, the paginated Jira fetch and   *)
(* the run of main that writes docs/index.html.                            *)
(*                                                                         *)
(* Python values are modelled as follows.  A str whose characters matter   *)
(* (status names, date strings) is a tuple of one-character strings; a     *)
(* value that may be None is PyNone or Str(s); a datetime at midnight is a *)
(* record [y, m, d].                                                       *)
(***************************************************************************)
EXTENDS Integers, Sequences, FiniteSets, TLC

VARIABLES
    \* the processing pipeline
    START_DATE,        \* configured start date
    END_DATE,          \* configured end date
    in_issues,         \* the child issues handed to process_issues
    intervals,         \* the interval sequence handed to process_issues
    data,              \* the dataset process_issues returned, PyNone before
    phase,             \* position of the processing pipeline
    \* the run of main
    JIRA_EMAIL,        \* credentials from the environment, '' when unset
    JIRA_API_TOKEN,
    pc,                \* position of the run
    jql,               \* the query of the running fetch
    all_issues,        \* records accumulated by the running fetch loop
    next_page_token,   \* continuation token held by the running fetch loop
    initiatives,       \* fetch_jira_issues: the initiatives fetched
    all_epics,         \* fetch_epics_for_initiatives: the epics so far
    batch_i,           \* fetch_epics_for_initiatives: start of the batch
    fetched,           \* main: the triple fetch_jira_issues returned
    html,              \* main: the rendered document, PyNone before
    artifact,          \* docs/index.html on disk
    main_result,       \* "running", "True", "False" or "raised"
    \* history of the run
    previous_artifact, \* docs/index.html when the run started
    pages,             \* pages received by the running fetch, in order
    tokens_sent,       \* nextPageToken of each request of the running fetch
    tokens_got,        \* nextPageToken of each response of the running fetch
    requests,          \* number of requests posted during the run
    continuations,     \* number of continuation tokens handed out during the run
    returned           \* what the last finished fetch returned, and from what

pure_vars == <<START_DATE, END_DATE, in_issues, intervals, data, phase>>

run_vars == <<JIRA_EMAIL, JIRA_API_TOKEN, pc, jql, all_issues, next_page_token,
              initiatives, all_epics, batch_i, fetched, html, artifact, main_result,
              previous_artifact, pages, tokens_sent, tokens_got, requests, continuations,
              returned>>

vars == <<pure_vars, run_vars>>

----------------------------------------------------------------------------
(* Python values *)

PyNone == [none |-> TRUE]
Missing == [missing |-> TRUE]          \* a key that is absent from a dict
Str(s) == [str |-> s]
ValueError == [error |-> "ValueError"]

\* dict.get(key, default)
Get(v, default) == IF v = Missing THEN default ELSE v

\* Python truthiness of an Optional[str]
Truthy(v) == v # PyNone /\ Len(v.str) > 0

Min(S) == CHOOSE x \in S : \A y \in S : x <= y
Max(S) == CHOOSE x \in S : \A y \in S : x >= y

----------------------------------------------------------------------------
(* str.lower() on ASCII text *)

UPPER == <<"A","B","C","D","E","F","G","H","I","J","K","L","M",
           "N","O","P","Q","R","S","T","U","V","W","X","Y","Z">>
LOWER == <<"a","b","c","d","e","f","g","h","i","j","k","l","m",
           "n","o","p","q","r","s","t","u","v","w","x","y","z">>

char_lower(c) ==
    IF \E i \in 1..Len(UPPER) : UPPER[i] = c
    THEN LOWER[CHOOSE i \in 1..Len(UPPER) : UPPER[i] = c]
    ELSE c

str_lower(s) == [i \in 1..Len(s) |-> char_lower(s[i])]

----------------------------------------------------------------------------
(* Status mappings *)

COMPLETION_STATUSES ==
    << <<"D","o","n","e">>,
       <<"D","O","N","E">>,
       <<"R","e","a","d","y"," ","f","o","r"," ","P","r","o","d"," ","R","e","l","e","a","s","e">>,
       <<"P","e","n","d","i","n","g"," ","D","e","p","l","o","y","m","e","n","t">>,
       <<"R","e","a","d","y"," ","f","o","r"," ","D","e","p","l","o","y","/","P","u","s","h">>,
       <<"P","M"," ","R","e","v","i","e","w">>,
       <<"R","e","a","d","y"," ","f","o","r"," ","R","e","v","i","e","w">>,
       <<"R","e","a","d","y"," ","f","o","r"," ","U","A","T">>,
       <<"R","e","a","d","y"," ","f","o","r"," ","P","r","o","d">> >>

STATUS_GROUPS ==
    << [group |-> "Not Started", statuses |->
          << <<"T","o"," ","D","o">>,
             <<"S","c","o","p","i","n","g">> >>],
       [group |-> "Blocked", statuses |->
          << <<"B","l","o","c","k","e","d">> >>],
       [group |-> "Dev In Prog", statuses |->
          << <<"I","n"," ","P","r","o","g","r","e","s","s">>,
             <<"C","o","d","e"," ","R","e","v","i","e","w">>,
             <<"F","i","x"," ","R","e","q","u","i","r","e","d">> >>],
       [group |-> "QA", statuses |->
          << <<"I","n"," ","Q","A">>,
             <<"Q","A"," ","I","n"," ","P","r","o","g","r","e","s","s">>,
             <<"R","e","a","d","y"," ","f","o","r"," ","Q","A">> >>],
       [group |-> "Done", statuses |-> COMPLETION_STATUSES] >>

\* get_status_group comparing the names as they are, without lower()
get_status_group_case_sensitive(status_name) ==
    IF ~Truthy(status_name) THEN "Other"
    ELSE LET hits == {g \in 1..Len(STATUS_GROUPS) :
                        \E k \in 1..Len(STATUS_GROUPS[g].statuses) :
                            STATUS_GROUPS[g].statuses[k] = status_name.str}
         IN  IF hits = {} THEN "Other" ELSE STATUS_GROUPS[Min(hits)].group

\* get_status_group: the first group, in table order, one of whose statuses
\* equals the name once both are lowercased; 'Other' for a falsy name.
get_status_group(status_name) ==
    IF ~Truthy(status_name) THEN "Other"
    ELSE LET status_lower == str_lower(status_name.str)
             hits == {g \in 1..Len(STATUS_GROUPS) :
                        \E k \in 1..Len(STATUS_GROUPS[g].statuses) :
                            str_lower(STATUS_GROUPS[g].statuses[k]) = status_lower}
         IN  IF hits = {} THEN "Other" ELSE STATUS_GROUPS[Min(hits)].group

\* is_completed comparing lowercased names
is_completed_any_case(status) ==
    /\ status # PyNone
    /\ \E k \in 1..Len(COMPLETION_STATUSES) :
          str_lower(COMPLETION_STATUSES[k]) = str_lower(status.str)

\* is_completed: status in COMPLETION_STATUSES (list membership by ==)
is_completed(status) ==
    /\ status # PyNone
    /\ \E k \in 1..Len(COMPLETION_STATUSES) : COMPLETION_STATUSES[k] = status.str

----------------------------------------------------------------------------
(* datetime, calendar.monthrange, strftime and strptime *)

Date(y, m, d) == [y |-> y, m |-> m, d |-> d]

DateLT(a, b) ==
    \/ a.y < b.y
    \/ a.y = b.y /\ a.m < b.m
    \/ a.y = b.y /\ a.m = b.m /\ a.d < b.d

DateLE(a, b) == a = b \/ DateLT(a, b)

isleap(y) == y % 4 = 0 /\ (y % 100 # 0 \/ y % 400 = 0)

\* the number of days of the month (second component of monthrange)
monthrange(y, m) ==
    IF m = 2 THEN (IF isleap(y) THEN 29 ELSE 28)
    ELSE IF m \in {4, 6, 9, 11} THEN 30 ELSE 31

DIGITS == <<"0","1","2","3","4","5","6","7","8","9">>

MONTH_NAMES == <<"January", "February", "March", "April", "May", "June", "July",
                 "August", "September", "October", "November", "December">>

Digit(n) == DIGITS[n + 1]

\* strftime('%Y-%m-%d'), for the four-digit years 1000..9999
strftime_ymd(dt) ==
    << Digit(dt.y \div 1000), Digit((dt.y \div 100) % 10),
       Digit((dt.y \div 10) % 10), Digit(dt.y % 10), "-",
       Digit(dt.m \div 10), Digit(dt.m % 10), "-",
       Digit(dt.d \div 10), Digit(dt.d % 10) >>

\* strftime('%B %Y'), e.g. "January 2026"
strftime_BY(dt) == MONTH_NAMES[dt.m] \o " " \o ToString(dt.y)

IsDigit(c) == \E i \in 1..Len(DIGITS) : DIGITS[i] = c

DigitVal(c) == (CHOOSE i \in 1..Len(DIGITS) : DIGITS[i] = c) - 1

AllDigits(s) == \A i \in 1..Len(s) : IsDigit(s[i])

RECURSIVE NumVal(_)
NumVal(s) ==
    IF Len(s) = 0 THEN 0
    ELSE NumVal(SubSeq(s, 1, Len(s) - 1)) * 10 + DigitVal(s[Len(s)])

\* datetime.strptime(s, '%Y-%m-%d'): exactly four year digits, a month
\* 1..12 and a day 1..31 of one or two digits (the day also as a space and
\* a digit), nothing after; the day must exist in the month.  Anything
\* else raises ValueError.
strptime_ymd(s) ==
    LET dashes == {i \in 1..Len(s) : s[i] = "-"}
    IN  IF Cardinality(dashes) # 2 THEN ValueError
        ELSE LET i == Min(dashes)
                 j == Max(dashes)
                 Y == SubSeq(s, 1, i - 1)
                 M == SubSeq(s, i + 1, j - 1)
                 D0 == SubSeq(s, j + 1, Len(s))
                 D == IF Len(D0) = 2 /\ D0[1] = " " /\ D0[2] # "0"
                      THEN SubSeq(D0, 2, 2) ELSE D0
                 shaped == /\ Len(Y) = 4 /\ AllDigits(Y)
                           /\ Len(M) \in {1, 2} /\ AllDigits(M)
                           /\ Len(D) \in {1, 2} /\ AllDigits(D)
             IN  IF ~shaped THEN ValueError
                 ELSE LET y == NumVal(Y)
                          m == NumVal(M)
                          d == NumVal(D)
                      IN  IF /\ y >= 1
                             /\ m \in 1..12
                             /\ d >= 1
                             /\ d <= monthrange(y, m)
                          THEN Date(y, m, d)
                          ELSE ValueError

\* date_str.split('T')[0]: the text before the first 'T'
split_T(s) ==
    LET ts == {i \in 1..Len(s) : s[i] = "T"}
    IN  IF ts = {} THEN s ELSE SubSeq(s, 1, Min(ts) - 1)

\* fields.get('status', {}).get('name', '')
status_name_of(issue) == Get(issue.fields.status_name, Str(<<>>))

\* get_effective_date taking resolutiondate for every completion status
get_effective_date_by_completion(issue) ==
    LET status == status_name_of(issue)
        date_str == IF is_completed(status)
                    THEN Get(issue.fields.resolutiondate, PyNone)
                    ELSE Get(issue.fields.updated, PyNone)
    IN  IF Truthy(date_str)
        THEN LET parsed == strptime_ymd(split_T(date_str.str))
             IN  IF parsed = ValueError THEN PyNone ELSE parsed
        ELSE PyNone

\* get_effective_date: resolutiondate for the status 'Done', updated for
\* every other status; None for a falsy field or one strptime rejects.
get_effective_date(issue) ==
    LET status == status_name_of(issue)
        date_str == IF status = Str(<<"D","o","n","e">>)
                    THEN Get(issue.fields.resolutiondate, PyNone)
                    ELSE Get(issue.fields.updated, PyNone)
    IN  IF Truthy(date_str)
        THEN LET parsed == strptime_ymd(split_T(date_str.str))
             IN  IF parsed = ValueError THEN PyNone ELSE parsed
        ELSE PyNone

----------------------------------------------------------------------------
(* generate_intervals *)

\* first day of the month after current's (L96-99)
next_month_start(current) ==
    IF current.m = 12 THEN Date(current.y + 1, 1, 1)
    ELSE Date(current.y, current.m + 1, 1)

\* the loop body without the clipping to END_DATE
month_interval_unclipped(current, end_date) ==
    [start |-> strftime_ymd(current),
     end   |-> strftime_ymd(Date(current.y, current.m, monthrange(current.y, current.m))),
     label |-> strftime_BY(current)]

\* one pass of the while loop body: the interval of current's month
month_interval(current, end_date) ==
    LET last_day == monthrange(current.y, current.m)
        month_end0 == Date(current.y, current.m, last_day)
        month_end == IF DateLT(end_date, month_end0) THEN end_date ELSE month_end0
    IN  [start |-> strftime_ymd(current),
         end   |-> strftime_ymd(month_end),
         label |-> strftime_BY(current)]

RECURSIVE intervals_from(_, _, _)
intervals_from(current, end_date, acc) ==
    IF DateLE(current, end_date)
    THEN intervals_from(next_month_start(current), end_date,
                        Append(acc, month_interval(current, end_date)))
    ELSE acc

generate_intervals == intervals_from(START_DATE, END_DATE, <<>>)

----------------------------------------------------------------------------
(* process_issues *)

\* the interval test with the end date excluded
week_label_of_end_exclusive(status_name, effective_date, ivs) ==
    IF is_completed(status_name) /\ effective_date # PyNone
    THEN LET hits == {k \in 1..Len(ivs) :
                        /\ DateLE(strptime_ymd(ivs[k].start), effective_date)
                        /\ DateLT(effective_date, strptime_ymd(ivs[k].end))}
             week_label == IF hits = {} THEN PyNone
                           ELSE Str(ivs[Min(hits)].label)
         IN  IF ~Truthy(week_label) /\ DateLT(effective_date, START_DATE)
             THEN (IF Len(ivs) > 0 THEN Str(ivs[1].label) ELSE PyNone)
             ELSE week_label
    ELSE PyNone

\* the interval assignment of the loop: the label of the first interval containing the effective date
\* of a completed issue, else the first interval's label for a date before
\* START_DATE, else None.
week_label_of(status_name, effective_date, ivs) ==
    IF is_completed(status_name) /\ effective_date # PyNone
    THEN LET hits == {k \in 1..Len(ivs) :
                        /\ DateLE(strptime_ymd(ivs[k].start), effective_date)
                        /\ DateLE(effective_date, strptime_ymd(ivs[k].end))}
             week_label == IF hits = {} THEN PyNone
                           ELSE Str(ivs[Min(hits)].label)
         IN  IF ~Truthy(week_label) /\ DateLT(effective_date, START_DATE)
             THEN (IF Len(ivs) > 0 THEN Str(ivs[1].label) ELSE PyNone)
             ELSE week_label
    ELSE PyNone

\* one pass of the loop over issues (L277-324)
process_issue(issue, ivs) ==
    LET status_name == status_name_of(issue)
        effective_date == get_effective_date(issue)
    IN  [status        |-> status_name,
         statusGroup   |-> get_status_group(status_name),
         isCompleted   |-> is_completed(status_name),
         effectiveDate |-> IF effective_date # PyNone
                           THEN Str(strftime_ymd(effective_date)) ELSE PyNone,
         weekLabel     |-> week_label_of(status_name, effective_date, ivs)]

\* the group names in the order sorted() gives them
SORTED_GROUPS == <<"Blocked", "Dev In Prog", "Done", "Not Started", "Other", "QA">>

\* every group of the table, seen or not
sorted_groups_all(status_groups) == SORTED_GROUPS

\* sorted(list(status_groups))
sorted_groups(status_groups) ==
    LET in_set(g) == g \in status_groups
    IN  SelectSeq(SORTED_GROUPS, in_set)

\* process_initiative
process_initiative(issue) ==
    [key    |-> issue.key,
     status |-> status_name_of(issue)]

\* process_epic
process_epic(issue) ==
    [key    |-> issue.key,
     status |-> status_name_of(issue),
     parent |-> Get(issue.fields.parent, PyNone)]

\* a list where None may stand instead
List(xs) == [list |-> xs]

\* `if initiatives:` and the loop over them
process_initiatives(inits) ==
    IF inits = PyNone THEN <<>>
    ELSE [i \in 1..Len(inits.list) |-> process_initiative(inits.list[i])]

\* `if epics:` and the loop over them
process_epics(epics) ==
    IF epics = PyNone THEN <<>>
    ELSE [i \in 1..Len(epics.list) |-> process_epic(epics.list[i])]

process_issues(issues, ivs, inits, epics) ==
    LET processed == [i \in 1..Len(issues) |-> process_issue(issues[i], ivs)]
        status_groups == {processed[i].statusGroup : i \in 1..Len(issues)}
    IN  [issues       |-> processed,
         initiatives  |-> process_initiatives(inits),
         epics        |-> process_epics(epics),
         statusGroups |-> sorted_groups(status_groups),
         intervals    |-> ivs,
         startDate    |-> strftime_ymd(START_DATE),
         endDate      |-> strftime_ymd(END_DATE)]

----------------------------------------------------------------------------
(* Inputs of the processing pipeline *)

\* the configured dates (L14, L15)
CONFIG_START == Date(2026, 1, 7)
CONFIG_END == Date(2026, 3, 31)

\* Date strings as Jira returns them and malformed ones, each with the
\* date CPython's get_effective_date steps give for it.
DATE_CASES ==
    <<
       \* '2026-02-15T10:00:00Z'
       [text |-> <<"2","0","2","6","-","0","2","-","1","5","T","1","0",":","0","0",":","0","0","Z">>,
        date |-> Date(2026, 2, 15)],
       \* '2026-01-07'
       [text |-> <<"2","0","2","6","-","0","1","-","0","7">>,
        date |-> Date(2026, 1, 7)],
       \* '2026-03-31T23:59:59.000+0000'
       [text |-> <<"2","0","2","6","-","0","3","-","3","1","T","2","3",":","5","9",":","5","9",".","0","0","0","+","0","0","0","0">>,
        date |-> Date(2026, 3, 31)],
       \* '2025-12-01T08:30:00.000+0000'
       [text |-> <<"2","0","2","5","-","1","2","-","0","1","T","0","8",":","3","0",":","0","0",".","0","0","0","+","0","0","0","0">>,
        date |-> Date(2025, 12, 1)],
       \* '2026-04-01T00:00:00Z'
       [text |-> <<"2","0","2","6","-","0","4","-","0","1","T","0","0",":","0","0",":","0","0","Z">>,
        date |-> Date(2026, 4, 1)],
       \* '2026-01-06T12:00:00Z'
       [text |-> <<"2","0","2","6","-","0","1","-","0","6","T","1","2",":","0","0",":","0","0","Z">>,
        date |-> Date(2026, 1, 6)],
       \* '2026-02-30'
       [text |-> <<"2","0","2","6","-","0","2","-","3","0">>,
        date |-> PyNone],
       \* '2026-2-5'
       [text |-> <<"2","0","2","6","-","2","-","5">>,
        date |-> Date(2026, 2, 5)],
       \* 'not a date'
       [text |-> <<"n","o","t"," ","a"," ","d","a","t","e">>,
        date |-> PyNone],
       \* '2026-01-31 10:00'
       [text |-> <<"2","0","2","6","-","0","1","-","3","1"," ","1","0",":","0","0">>,
        date |-> PyNone],
       \* 'Tuesday'
       [text |-> <<"T","u","e","s","d","a","y">>,
        date |-> PyNone],
       \* ''
       [text |-> <<>>,
        date |-> PyNone] >>

\* status names that are in no table: other letter case, prefixes, unknown
OTHER_STATUS_NAMES ==
    { <<"d","o","n","e">>,
      <<"i","n"," ","p","r","o","g","r","e","s","s">>,
      <<"I","N"," ","P","R","O","G","R","E","S","S">>,
      <<"I","n"," ","P","r","o","g">>,
      <<"I","n"," ","P","r","o","g","r","e","s","s"," ">>,
      <<"C","a","n","c","e","l","e","d">>,
      <<"r","e","a","d","y"," ","f","o","r"," ","u","a","t">>,
      <<"p","m"," ","r","e","v","i","e","w">>,
      <<>> }

TABLE_STATUS_NAMES ==
    UNION {{STATUS_GROUPS[g].statuses[k] : k \in 1..Len(STATUS_GROUPS[g].statuses)} :
             g \in 1..Len(STATUS_GROUPS)}

\* the 'name' of fields.status: a str, null, or no such key
StatusFields ==
    {Str(s) : s \in TABLE_STATUS_NAMES \cup OTHER_STATUS_NAMES} \cup {PyNone, Missing}

\* the 'updated' field: a str, null, or no such key
UpdatedFields ==
    {Str(DATE_CASES[i].text) : i \in 1..Len(DATE_CASES)} \cup {PyNone, Missing}

\* the 'resolutiondate' field
ResolutionFields ==
    {Str(DATE_CASES[i].text) : i \in {1, 4, 5, 7}} \cup {PyNone, Missing}

Issue(s, r, u) ==
    [fields |-> [status_name |-> s, resolutiondate |-> r, updated |-> u, parent |-> Missing]]

RawIssues ==
    {Issue(s, r, u) : s \in StatusFields, r \in ResolutionFields, u \in UpdatedFields}

\* issues that between them fall into every status group
SampleIssues ==
    {Issue(Str(s), Str(DATE_CASES[1].text), Str(DATE_CASES[4].text)) :
        s \in { <<"D","o","n","e">>, <<"d","o","n","e">>, <<"T","o"," ","D","o">>,
                <<"B","l","o","c","k","e","d">>, <<"I","n"," ","Q","A">>,
                <<"I","N"," ","P","R","O","G","R","E","S","S">>,
                <<"C","a","n","c","e","l","e","d">> }}

MaxIssues == 2

RECURSIVE SeqsUpTo(_, _)
SeqsUpTo(S, n) ==
    IF n = 0 THEN {<<>>}
    ELSE LET shorter == SeqsUpTo(S, n - 1)
         IN  shorter \cup {Append(q, x) : q \in {p \in shorter : Len(p) = n - 1}, x \in S}

\* the lists of child issues: every single issue, and the lists of up to
\* MaxIssues sample issues
IssueLists ==
    {<<i>> : i \in RawIssues} \cup (SeqsUpTo(SampleIssues, MaxIssues) \ {<<>>})

Interval(s, e, l) == [start |-> strftime_ymd(s), end |-> strftime_ymd(e), label |-> l]

\* interval sequences a caller other than main may pass: none, overlapping
\* ones, descending ones, one that starts after START_DATE
SuppliedIntervals ==
    { <<>>,
      << Interval(Date(2026, 1, 1), Date(2026, 2, 28), "A"),
         Interval(Date(2026, 2, 1), Date(2026, 3, 31), "B") >>,
      << Interval(Date(2026, 3, 1), Date(2026, 3, 31), "March 2026"),
         Interval(Date(2026, 2, 1), Date(2026, 2, 28), "February 2026"),
         Interval(Date(2026, 1, 7), Date(2026, 1, 31), "January 2026") >>,
      << Interval(Date(2026, 2, 1), Date(2026, 2, 28), "February 2026") >> }

\* the configurations the classification is checked under
ClassifyConfigs ==
    { <<CONFIG_START, CONFIG_END>>, <<Date(2026, 2, 1), Date(2026, 4, 30)>> }

YearSpan == 2

\* start and end dates for the interval generator: the first, 7th, 28th and
\* last day of every month of the years from the configured one on
ConfigDates ==
    {Date(y, m, d) : y \in CONFIG_START.y..(CONFIG_START.y + YearSpan), m \in 1..12,
                     d \in {1, 7, 28}}
    \cup {Date(y, m, monthrange(y, m)) :
             y \in CONFIG_START.y..(CONFIG_START.y + YearSpan), m \in 1..12}
    \cup {CONFIG_START, CONFIG_END}

----------------------------------------------------------------------------
(* The Jira search endpoint as the fetch loops see it *)

\* continuation tokens the endpoint hands out during one run, at most
MaxContinuations == 2

\* fetch_epics_for_initiatives: keys per request
batch_size == 20

\* the continuation token the endpoint hands out with the n-th page of an
\* answer; a page with None or '' instead is the last one
PageToken(n) == Str("page " \o ToString(n + 1))
NoTokens == {PyNone, Str("")}

\* numbers of records a page may hold; an initiatives page may hold more
\* keys than one batch
PageSizes == {0, 1}
InitiativePageSizes == {0, 1, batch_size + 1}

\* the fields of the records of the n-th page of an answer to query
PageFields(query, n) ==
    IF query # "children"
    THEN Issue(Str(<<"T","o"," ","D","o">>), Missing, Missing).fields
    ELSE IF n % 3 = 1
    THEN Issue(Str(<<"D","o","n","e">>), Str(DATE_CASES[1].text), Str(DATE_CASES[3].text)).fields
    ELSE IF n % 3 = 2
    THEN Issue(Str(<<"I","n"," ","P","r","o","g","r","e","s","s">>), PyNone,
               Str(DATE_CASES[2].text)).fields
    ELSE Issue(Str(<<"D","O","N","E">>), Missing, Str(DATE_CASES[4].text)).fields

\* the 'issues' of the n-th page of an answer to query, size records
Page(query, n, size) ==
    [j \in 1..size |-> [key |-> <<n, j>>, fields |-> PageFields(query, n)]]

RECURSIVE Concat(_)
Concat(ps) == IF Len(ps) = 0 THEN <<>> ELSE Head(ps) \o Concat(Tail(ps))

----------------------------------------------------------------------------
(* fetch_issues_by_jql, fetch_initiatives, fetch_epics_for_initiatives *)

InitiativesJql == [query |-> "initiatives"]
EpicsJql(batch) == [query |-> "epics", parents |-> batch]
ChildrenJql == [query |-> "children"]

\* initiative_keys[i:i+batch_size]
batch_of(initiative_list, i) ==
    LET keys == [k \in 1..Len(initiative_list) |-> initiative_list[k].key]
    IN  SubSeq(keys, i + 1, Min({i + batch_size, Len(keys)}))

\* the nextPageToken of the payload: attached only when truthy
payload_token_never(token) == PyNone

payload_token(token) == IF Truthy(token) THEN token ELSE PyNone

\* what fetch_issues_by_jql returns when a request fails
jql_failure_value_discard(accumulated) == <<>>

jql_failure_value(accumulated) == accumulated

\* `if not issues:` of main
no_issues_never(issue_list) == FALSE

no_issues(issue_list) == Len(issue_list) = 0

\* the loop variables of a fetch that is about to start
StartFetch(query) ==
    /\ jql' = query
    /\ all_issues' = <<>>
    /\ next_page_token' = PyNone
    /\ pages' = <<>>
    /\ tokens_sent' = <<>>
    /\ tokens_got' = <<>>

\* fetch_issues_by_jql returns value to fetch_initiatives, which hands it to
\* fetch_jira_issues, or to fetch_epics_for_initiatives, which extends
\* all_epics and goes on to the next batch; after the last batch
\* fetch_jira_issues starts the child-issue loop.
JqlReturn(value, failed, got_pages, sent, got) ==
    /\ returned' = [op |-> pc, value |-> value, failed |-> failed,
                    pages |-> got_pages, sent |-> sent, got |-> got]
    /\ IF pc = "initiatives"
       THEN /\ initiatives' = value
            /\ all_epics' = <<>>
            /\ batch_i' = 0
            /\ IF Len(value) = 0
               THEN pc' = "children" /\ StartFetch(ChildrenJql)
               ELSE pc' = "epics" /\ StartFetch(EpicsJql(batch_of(value, 0)))
       ELSE /\ all_epics' = all_epics \o value
            /\ UNCHANGED initiatives
            /\ IF batch_i + batch_size < Len(initiatives)
               THEN /\ batch_i' = batch_i + batch_size
                    /\ pc' = "epics"
                    /\ StartFetch(EpicsJql(batch_of(initiatives, batch_i + batch_size)))
               ELSE /\ batch_i' = batch_i
                    /\ pc' = "children"
                    /\ StartFetch(ChildrenJql)

\* one pass of the loop of fetch_issues_by_jql whose request raises or is
\* answered with a status other than 200
JqlRequestFails ==
    /\ pc \in {"initiatives", "epics"}
    /\ requests' = requests + 1
    /\ JqlReturn(jql_failure_value(all_issues), TRUE, pages,
                 Append(tokens_sent, payload_token(next_page_token)), tokens_got)
    /\ UNCHANGED <<JIRA_EMAIL, JIRA_API_TOKEN, fetched, html, artifact, main_result,
                   previous_artifact, continuations>>
    /\ UNCHANGED pure_vars

\* one pass of the loop of fetch_issues_by_jql answered with a page
JqlRequestPage ==
    /\ pc \in {"initiatives", "epics"}
    /\ \E size \in (IF pc = "initiatives" THEN InitiativePageSizes ELSE PageSizes),
          token \in NoTokens \cup (IF continuations < MaxContinuations
                                   THEN {PageToken(Len(pages) + 1)} ELSE {}) :
          LET page == Page(jql.query, Len(pages) + 1, size)
              extended == all_issues \o page
          IN  /\ requests' = requests + 1
              /\ IF Truthy(token)
                 THEN /\ all_issues' = extended
                      /\ next_page_token' = token
                      /\ continuations' = continuations + 1
                      /\ pages' = Append(pages, page)
                      /\ tokens_sent' = Append(tokens_sent, payload_token(next_page_token))
                      /\ tokens_got' = Append(tokens_got, token)
                      /\ UNCHANGED <<pc, jql, initiatives, all_epics, batch_i, returned>>
                 ELSE /\ JqlReturn(extended, FALSE, Append(pages, page),
                                   Append(tokens_sent, payload_token(next_page_token)),
                                   Append(tokens_got, token))
                      /\ UNCHANGED continuations
    /\ UNCHANGED <<JIRA_EMAIL, JIRA_API_TOKEN, fetched, html, artifact, main_result,
                   previous_artifact>>
    /\ UNCHANGED pure_vars

----------------------------------------------------------------------------
(* fetch_jira_issues and main *)

EmptyTriple == [issues |-> <<>>, initiatives |-> <<>>, epics |-> <<>>]

\* main with a credential unset: fetch_jira_issues returns three empty
\* lists before any request, main returns False
MainNoCredentials ==
    /\ pc = "main"
    /\ JIRA_EMAIL = "" \/ JIRA_API_TOKEN = ""
    /\ fetched' = EmptyTriple
    /\ main_result' = "False"
    /\ pc' = "exit"
    /\ UNCHANGED <<JIRA_EMAIL, JIRA_API_TOKEN, jql, all_issues, next_page_token,
                   initiatives, all_epics, batch_i, html, artifact, previous_artifact,
                   pages, tokens_sent, tokens_got, requests, continuations, returned>>
    /\ UNCHANGED pure_vars

\* main with both credentials: fetch_jira_issues calls fetch_initiatives
MainFetch ==
    /\ pc = "main"
    /\ JIRA_EMAIL # "" /\ JIRA_API_TOKEN # ""
    /\ pc' = "initiatives"
    /\ StartFetch(InitiativesJql)
    /\ UNCHANGED <<JIRA_EMAIL, JIRA_API_TOKEN, initiatives, all_epics, batch_i, fetched,
                   html, artifact, main_result, previous_artifact, requests,
                   continuations, returned>>
    /\ UNCHANGED pure_vars

\* fetch_jira_issues returns triple to main, which returns False without
\* issues and otherwise generates the intervals and processes the issues
MainReceives(triple) ==
    /\ fetched' = triple
    /\ all_issues' = <<>>
    /\ next_page_token' = PyNone
    /\ pages' = <<>>
    /\ tokens_sent' = <<>>
    /\ tokens_got' = <<>>
    /\ IF no_issues(triple.issues)
       THEN /\ main_result' = "False"
            /\ pc' = "exit"
            /\ UNCHANGED <<in_issues, intervals, data, phase>>
       ELSE /\ main_result' = main_result
            /\ pc' = "render"
            /\ in_issues' = triple.issues
            /\ intervals' = generate_intervals
            /\ data' = process_issues(triple.issues, generate_intervals,
                                      List(triple.initiatives), List(triple.epics))
            /\ phase' = "processed"

\* one pass of the child-issue loop whose request raises or is answered
\* with a status other than 200: three empty lists
ChildRequestFails ==
    /\ pc = "children"
    /\ requests' = requests + 1
    /\ returned' = [op |-> pc, value |-> <<>>, failed |-> TRUE, pages |-> pages,
                    sent |-> Append(tokens_sent, payload_token(next_page_token)),
                    got |-> tokens_got]
    /\ MainReceives(EmptyTriple)
    /\ UNCHANGED <<JIRA_EMAIL, JIRA_API_TOKEN, jql, initiatives, all_epics, batch_i,
                   html, artifact, previous_artifact, continuations, START_DATE, END_DATE>>

\* one pass of the child-issue loop answered with a page
ChildRequestPage ==
    /\ pc = "children"
    /\ \E size \in PageSizes,
          token \in NoTokens \cup (IF continuations < MaxContinuations
                                   THEN {PageToken(Len(pages) + 1)} ELSE {}) :
          LET page == Page(jql.query, Len(pages) + 1, size)
              extended == all_issues \o page
          IN  /\ requests' = requests + 1
              /\ IF Truthy(token)
                 THEN /\ all_issues' = extended
                      /\ next_page_token' = token
                      /\ continuations' = continuations + 1
                      /\ pages' = Append(pages, page)
                      /\ tokens_sent' = Append(tokens_sent, payload_token(next_page_token))
                      /\ tokens_got' = Append(tokens_got, token)
                      /\ UNCHANGED <<pc, fetched, main_result, returned,
                                     in_issues, intervals, data, phase>>
                 ELSE /\ UNCHANGED continuations
                      /\ returned' = [op |-> pc, value |-> extended, failed |-> FALSE,
                                      pages |-> Append(pages, page),
                                      sent |-> Append(tokens_sent,
                                                      payload_token(next_page_token)),
                                      got |-> Append(tokens_got, token)]
                      /\ MainReceives([issues |-> extended, initiatives |-> initiatives,
                                       epics |-> all_epics])
    /\ UNCHANGED <<JIRA_EMAIL, JIRA_API_TOKEN, jql, initiatives, all_epics, batch_i,
                   html, artifact, previous_artifact, START_DATE, END_DATE>>

file_vars == <<JIRA_EMAIL, JIRA_API_TOKEN, jql, all_issues, next_page_token, initiatives,
               all_epics, batch_i, fetched, previous_artifact, pages, tokens_sent,
               tokens_got, requests, continuations, returned>>

\* generate_html: reading the template raises, or the document is built
GenerateHtml ==
    /\ pc = "render"
    /\ \/ /\ main_result' = "raised"
          /\ pc' = "exit"
          /\ UNCHANGED html
       \/ /\ html' = [template |-> "dashboard_template.html", data |-> data]
          /\ pc' = "makedirs"
          /\ UNCHANGED main_result
    /\ UNCHANGED <<artifact, file_vars, pure_vars>>

\* os.makedirs(docs_dir, exist_ok=True) raises or returns
MakeDirs ==
    /\ pc = "makedirs"
    /\ \/ /\ main_result' = "raised"
          /\ pc' = "exit"
       \/ /\ pc' = "open"
          /\ UNCHANGED main_result
    /\ UNCHANGED <<html, artifact, file_vars, pure_vars>>

\* open(output_path, 'w') raises, or creates the file or truncates it
OpenOutput ==
    /\ pc = "open"
    /\ \/ /\ main_result' = "raised"
          /\ pc' = "exit"
          /\ UNCHANGED artifact
       \/ /\ artifact' = "empty"
          /\ pc' = "write"
          /\ UNCHANGED main_result
    /\ UNCHANGED <<html, file_vars, pure_vars>>

\* f.write(html) and the close of the with block: they raise with nothing
\* or a part of the document on disk, or the whole document is on disk and
\* main returns True
WriteOutput ==
    /\ pc = "write"
    /\ \/ /\ artifact' \in {"empty", "partial"}
          /\ main_result' = "raised"
       \/ /\ artifact' = "new"
          /\ main_result' = "True"
    /\ pc' = "exit"
    /\ UNCHANGED <<html, file_vars, pure_vars>>

\* the processing pipeline before it has run
PipelineIdle ==
    /\ START_DATE = CONFIG_START
    /\ END_DATE = CONFIG_END
    /\ in_issues = <<>>
    /\ intervals = <<>>
    /\ data = PyNone
    /\ phase = "config"

\* a run that has not started
RunIdle ==
    /\ pc = "main"
    /\ jql = PyNone
    /\ all_issues = <<>>
    /\ next_page_token = PyNone
    /\ initiatives = <<>>
    /\ all_epics = <<>>
    /\ batch_i = 0
    /\ fetched = PyNone
    /\ html = PyNone
    /\ main_result = "running"
    /\ pages = <<>>
    /\ tokens_sent = <<>>
    /\ tokens_got = <<>>
    /\ requests = 0
    /\ continuations = 0
    /\ returned = PyNone

Init ==
    /\ JIRA_EMAIL \in {"", "bot@example.com"}
    /\ JIRA_API_TOKEN \in {"", "secret"}
    /\ previous_artifact \in {"absent", "previous"}
    /\ artifact = previous_artifact
    /\ RunIdle
    /\ PipelineIdle

Next ==
    \/ MainNoCredentials
    \/ MainFetch
    \/ JqlRequestFails
    \/ JqlRequestPage
    \/ ChildRequestFails
    \/ ChildRequestPage
    \/ GenerateHtml
    \/ MakeDirs
    \/ OpenOutput
    \/ WriteOutput

Spec == Init /\ [][Next]_vars

----------------------------------------------------------------------------
(* generate_intervals and process_issues on their own *)

\* main L365
GenerateIntervals ==
    /\ phase = "config"
    /\ intervals' = generate_intervals
    /\ phase' = "intervals"
    /\ UNCHANGED <<START_DATE, END_DATE, in_issues, data>>
    /\ UNCHANGED run_vars

\* a caller that passes its own interval sequence to process_issues
SupplyIntervals ==
    /\ phase = "config"
    /\ \E ivs \in SuppliedIntervals : intervals' = ivs
    /\ phase' = "intervals"
    /\ UNCHANGED <<START_DATE, END_DATE, in_issues, data>>
    /\ UNCHANGED run_vars

\* main L368
ProcessIssues ==
    /\ phase = "intervals"
    /\ data' = process_issues(in_issues, intervals, PyNone, PyNone)
    /\ phase' = "processed"
    /\ UNCHANGED <<START_DATE, END_DATE, in_issues, intervals>>
    /\ UNCHANGED run_vars

InitIntervals ==
    /\ START_DATE \in ConfigDates
    /\ END_DATE \in ConfigDates
    /\ DateLE(START_DATE, END_DATE)
    /\ in_issues = <<>>
    /\ intervals = <<>>
    /\ data = PyNone
    /\ phase = "config"
    /\ JIRA_EMAIL = ""
    /\ JIRA_API_TOKEN = ""
    /\ previous_artifact = "absent"
    /\ artifact = "absent"
    /\ RunIdle

NextIntervals == GenerateIntervals

SpecIntervals == InitIntervals /\ [][NextIntervals]_vars

InitClassify ==
    /\ \E cfg \in ClassifyConfigs : START_DATE = cfg[1] /\ END_DATE = cfg[2]
    /\ in_issues \in IssueLists
    /\ intervals = <<>>
    /\ data = PyNone
    /\ phase = "config"
    /\ JIRA_EMAIL = ""
    /\ JIRA_API_TOKEN = ""
    /\ previous_artifact = "absent"
    /\ artifact = "absent"
    /\ RunIdle

NextClassify == GenerateIntervals \/ SupplyIntervals \/ ProcessIssues

SpecClassify == InitClassify /\ [][NextClassify]_vars

----------------------------------------------------------------------------
(* Properties of the interval generator *)

MonthIndex(dt) == dt.y * 12 + (dt.m - 1)

\* the calendar day after dt
DayAfter(dt) ==
    IF dt.d < monthrange(dt.y, dt.m) THEN Date(dt.y, dt.m, dt.d + 1)
    ELSE IF dt.m < 12 THEN Date(dt.y, dt.m + 1, 1)
    ELSE Date(dt.y + 1, 1, 1)

\* the i-th calendar month touched by [START_DATE, END_DATE]
TouchedMonth(i) ==
    LET mi == MonthIndex(START_DATE) + (i - 1)
    IN  [y |-> mi \div 12, m |-> (mi % 12) + 1]

\* C2: generate_intervals yields one interval per calendar month touched by
\* [start, end], ascending and contiguous: the first starts at start, each
\* later one on the first day of its month, which is the day after the
\* previous end; each ends on the last day of its month clipped to end, the
\* last one at end; the labels are the month names.  For 2026-01-07 to
\* 2026-03-31 these are January, February and March 2026.
C2_MonthlyIntervals ==
    phase = "intervals" =>
        LET n == MonthIndex(END_DATE) - MonthIndex(START_DATE) + 1
        IN  /\ Len(intervals) = n
            /\ \A i \in 1..Len(intervals) :
                  LET mth == TouchedMonth(i)
                      last == Date(mth.y, mth.m, monthrange(mth.y, mth.m))
                      s == strptime_ymd(intervals[i].start)
                      e == strptime_ymd(intervals[i].end)
                  IN  /\ s = (IF i = 1 THEN START_DATE ELSE Date(mth.y, mth.m, 1))
                      /\ e = (IF DateLT(END_DATE, last) THEN END_DATE ELSE last)
                      /\ DateLE(s, e)
                      /\ i > 1 => s = DayAfter(strptime_ymd(intervals[i - 1].end))
                      /\ i = n => e = END_DATE
                      /\ intervals[i].label = MONTH_NAMES[mth.m] \o " " \o ToString(mth.y)
                      /\ (mth.y = 2028 /\ mth.m = 2 /\ i < n) =>
                            intervals[i].end = <<"2","0","2","8","-","0","2","-","2","9">>
            /\ (START_DATE = CONFIG_START /\ END_DATE = CONFIG_END) =>
                  intervals =
                    << [start |-> <<"2","0","2","6","-","0","1","-","0","7">>,
                        end   |-> <<"2","0","2","6","-","0","1","-","3","1">>,
                        label |-> "January 2026"],
                       [start |-> <<"2","0","2","6","-","0","2","-","0","1">>,
                        end   |-> <<"2","0","2","6","-","0","2","-","2","8">>,
                        label |-> "February 2026"],
                       [start |-> <<"2","0","2","6","-","0","3","-","0","1">>,
                        end   |-> <<"2","0","2","6","-","0","3","-","3","1">>,
                        label |-> "March 2026"] >>

\* the configured dates have been turned into their three intervals
C2_Witness ==
    /\ phase = "intervals"
    /\ START_DATE = CONFIG_START
    /\ END_DATE = CONFIG_END
    /\ Len(intervals) = 3

----------------------------------------------------------------------------
(* Properties of the classifier and the processor *)

Processed == phase = "processed"

\* two names that differ at most in the case of their letters
SameIgnoringCase(a, b) ==
    /\ Len(a) = Len(b)
    /\ \A i \in 1..Len(a) :
          \/ a[i] = b[i]
          \/ \E k \in 1..Len(UPPER) : {a[i], b[i]} = {UPPER[k], LOWER[k]}

\* the groups of the table with an entry that is the name up to letter case
GroupsMatching(name) ==
    {g \in 1..Len(STATUS_GROUPS) :
        \E k \in 1..Len(STATUS_GROUPS[g].statuses) :
            SameIgnoringCase(name, STATUS_GROUPS[g].statuses[k])}

\* the text of a status name, '' for null and for no name
NameText(v) == IF v \in {PyNone, Missing} THEN <<>> ELSE v.str

\* the statement of C7 with the group names the specification lists
C7_GroupNamesOfSpec ==
    Processed =>
        \A i \in 1..Len(data.issues) :
            LET p == data.issues[i]
            IN  /\ p.statusGroup \in
                     {"Not Started", "Blocked", "Dev In Progress", "QA", "Done", "Other"}
                /\ SameIgnoringCase(NameText(p.status), <<"i","n"," ","p","r","o","g","r","e","s","s">>)
                     => p.statusGroup = "Dev In Progress"

\* C7 (amended): get_status_group is a case-insensitive exact match of the
\* whole status name against the group table: the result is one of Not
\* Started, Blocked, Dev In Prog, QA, Done, Other; names that differ only in
\* letter case get the same group ("in progress" and "IN PROGRESS" both get
\* "Dev In Prog"); a name matching no entry, an empty or an absent one
\* gets "Other".
C7_StatusGroup ==
    Processed =>
        /\ \A i \in 1..Len(data.issues) :
              LET p == data.issues[i]
                  name == NameText(in_issues[i].fields.status_name)
                  hits == GroupsMatching(name)
              IN  /\ p.statusGroup \in
                       {"Not Started", "Blocked", "Dev In Prog", "QA", "Done", "Other"}
                  /\ hits # {} => p.statusGroup = STATUS_GROUPS[Min(hits)].group
                  /\ hits = {} => p.statusGroup = "Other"
                  /\ name \in { <<"i","n"," ","p","r","o","g","r","e","s","s">>,
                                <<"I","N"," ","P","R","O","G","R","E","S","S">> }
                       => p.statusGroup = "Dev In Prog"
                  /\ name \in { <<>>, <<"I","n"," ","P","r","o","g">>,
                                <<"I","n"," ","P","r","o","g","r","e","s","s"," ">> }
                       => p.statusGroup = "Other"
        /\ \A i, j \in 1..Len(data.issues) :
              SameIgnoringCase(NameText(in_issues[i].fields.status_name),
                               NameText(in_issues[j].fields.status_name))
                => data.issues[i].statusGroup = data.issues[j].statusGroup

\* an all-capitals "IN PROGRESS" issue has been classified
C7_Witness ==
    /\ Processed
    /\ \E i \in 1..Len(data.issues) :
          /\ in_issues[i].fields.status_name = Str(<<"I","N"," ","P","R","O","G","R","E","S","S">>)
          /\ data.issues[i].statusGroup = "Dev In Prog"

\* the statement of C8 as written: "DONE" in capitals is not completed
C8_AllCapsNotCompleted ==
    Processed =>
        \A i \in 1..Len(data.issues) :
            in_issues[i].fields.status_name = Str(<<"D","O","N","E">>)
              => ~data.issues[i].isCompleted

\* C8 (amended): is_completed(S) is true iff S is exactly, letter case
\* included, one of the completion-status literals; "Done" and the
\* all-capitals "DONE" are both literals and completed, lowercase "done" is
\* not.
C8_IsCompleted ==
    Processed =>
        \A i \in 1..Len(data.issues) :
            LET p == data.issues[i]
                name == in_issues[i].fields.status_name
                literal == /\ name \notin {PyNone, Missing}
                           /\ \E k \in 1..Len(COMPLETION_STATUSES) :
                                 /\ Len(COMPLETION_STATUSES[k]) = Len(name.str)
                                 /\ \A c \in 1..Len(name.str) :
                                       COMPLETION_STATUSES[k][c] = name.str[c]
            IN  /\ p.isCompleted <=> literal
                /\ name = Str(<<"D","o","n","e">>) => p.isCompleted
                /\ name = Str(<<"D","O","N","E">>) => p.isCompleted
                /\ name = Str(<<"d","o","n","e">>) => ~p.isCompleted

\* an all-capitals "DONE" issue has been processed as completed
C8_Witness ==
    /\ Processed
    /\ \E i \in 1..Len(data.issues) :
          /\ in_issues[i].fields.status_name = Str(<<"D","O","N","E">>)
          /\ data.issues[i].isCompleted

\* the date CPython gives for the text of a date field
CaseDate(text) ==
    LET i == CHOOSE k \in 1..Len(DATE_CASES) : DATE_CASES[k].text = text
    IN  DATE_CASES[i].date

\* C9: the effective date comes from resolutiondate iff the status is
\* exactly "Done" and from updated for every other status; it is the date
\* part of the chosen field, and null when that field is absent or cannot
\* be parsed, whatever the other field holds.  Status "Done" resolved at
\* 2026-02-15T10:00:00Z gets 2026-02-15 and the label "February 2026".
C9_EffectiveDate ==
    Processed =>
        \A i \in 1..Len(data.issues) :
            LET p == data.issues[i]
                f == in_issues[i].fields
                chosen == IF f.status_name = Str(<<"D","o","n","e">>)
                          THEN f.resolutiondate ELSE f.updated
                expected == IF chosen \in {PyNone, Missing} THEN PyNone
                            ELSE CaseDate(chosen.str)
            IN  /\ expected = PyNone => p.effectiveDate = PyNone
                /\ expected # PyNone =>
                      /\ p.effectiveDate # PyNone
                      /\ strptime_ymd(p.effectiveDate.str) = expected
                /\ ( /\ f.status_name = Str(<<"D","o","n","e">>)
                     /\ f.resolutiondate = Str(DATE_CASES[1].text)
                     /\ intervals = generate_intervals
                     /\ START_DATE = CONFIG_START /\ END_DATE = CONFIG_END )
                   => /\ p.effectiveDate = Str(<<"2","0","2","6","-","0","2","-","1","5">>)
                      /\ p.weekLabel = Str("February 2026")

\* a "Done" issue resolved on 2026-02-15 whose updated field is another
\* date has been processed
C9_Witness ==
    /\ Processed
    /\ START_DATE = CONFIG_START
    /\ \E i \in 1..Len(data.issues) :
          /\ in_issues[i].fields.status_name = Str(<<"D","o","n","e">>)
          /\ in_issues[i].fields.resolutiondate = Str(DATE_CASES[1].text)
          /\ in_issues[i].fields.updated = Str(DATE_CASES[4].text)
          /\ data.issues[i].weekLabel = Str("February 2026")

\* the intervals, in order, whose [start, end] contains the date d
Containing(d) ==
    {k \in 1..Len(intervals) :
        /\ ~DateLT(d, strptime_ymd(intervals[k].start))
        /\ ~DateLT(strptime_ymd(intervals[k].end), d)}

\* C1: a completed issue with an effective date gets the label of the first
\* interval whose [start, end] contains the date, both ends included; if no
\* interval contains it and the date is before the configured start date,
\* the label of the first interval of the sequence (null when the sequence
\* has no interval); otherwise null.  An issue that is not completed
\* ("In Progress", whatever its dates) or has no effective date gets null.
C1_WeekLabel ==
    Processed =>
        \A i \in 1..Len(data.issues) :
            LET p == data.issues[i]
            IN  /\ (p.isCompleted /\ p.effectiveDate # PyNone) =>
                      LET d == strptime_ymd(p.effectiveDate.str)
                          hits == Containing(d)
                      IN  /\ hits # {} => p.weekLabel = Str(intervals[Min(hits)].label)
                          /\ (hits = {} /\ DateLT(d, START_DATE) /\ Len(intervals) > 0)
                               => p.weekLabel = Str(intervals[1].label)
                          /\ (hits = {} /\ DateLT(d, START_DATE) /\ Len(intervals) = 0)
                               => p.weekLabel = PyNone
                          /\ (hits = {} /\ ~DateLT(d, START_DATE)) => p.weekLabel = PyNone
                /\ (~p.isCompleted \/ p.effectiveDate = PyNone) => p.weekLabel = PyNone
                /\ in_issues[i].fields.status_name = Str(<<"I","n"," ","P","r","o","g","r","e","s","s">>)
                     => (~p.isCompleted /\ p.weekLabel = PyNone)

\* an issue completed on 2025-12-01, before the configured start, has got
\* the first generated label
C1_Witness ==
    /\ Processed
    /\ START_DATE = CONFIG_START
    /\ intervals = generate_intervals
    /\ \E i \in 1..Len(data.issues) :
          /\ data.issues[i].isCompleted
          /\ data.issues[i].effectiveDate = Str(<<"2","0","2","5","-","1","2","-","0","1">>)
          /\ data.issues[i].weekLabel = Str("January 2026")

\* C10: for every processed issue, isCompleted implies statusGroup "Done",
\* and a label implies isCompleted and an effective date; the converse of
\* the first fails: "done" is in group "Done" and not completed.  The
\* dataset's statusGroups lists exactly the groups of its issues, each once.
C10_DatasetInvariant ==
    Processed =>
        /\ \A i \in 1..Len(data.issues) :
              LET p == data.issues[i]
              IN  /\ p.isCompleted => p.statusGroup = "Done"
                  /\ p.weekLabel # PyNone => (p.isCompleted /\ p.effectiveDate # PyNone)
                  /\ in_issues[i].fields.status_name = Str(<<"d","o","n","e">>)
                       => (p.statusGroup = "Done" /\ ~p.isCompleted)
        /\ {data.statusGroups[k] : k \in 1..Len(data.statusGroups)}
             = {data.issues[i].statusGroup : i \in 1..Len(data.issues)}
        /\ \A k, l \in 1..Len(data.statusGroups) :
              data.statusGroups[k] = data.statusGroups[l] => k = l

\* a lowercase "done" issue and an issue of another group were processed
\* together
C10_Witness ==
    /\ Processed
    /\ Len(data.issues) = 2
    /\ in_issues[1].fields.status_name = Str(<<"d","o","n","e">>)
    /\ data.issues[1].statusGroup = "Done"
    /\ ~data.issues[1].isCompleted
    /\ data.issues[2].statusGroup = "Other"
    /\ Len(data.statusGroups) = 2

----------------------------------------------------------------------------
(* Properties of the fetch loops and of the run *)

Fetching == pc \in {"initiatives", "epics", "children"}

\* the statement of C3 for every fetch of the run, the child issues included
C3_PartialKeptByEveryFetch ==
    (returned # PyNone /\ returned.failed) =>
        /\ returned.value = Concat(returned.pages)
        /\ Len(returned.sent) = Len(returned.pages) + 1

\* C3 (amended): a fetch whose request fails after k >= 0 pages stops at
\* once, without another request.  The initiatives fetch and every epics
\* fetch (fetch_issues_by_jql) then return exactly the records of those k
\* pages, which fetch_jira_issues keeps.  The child-issue fetch discards
\* them: fetch_jira_issues returns three empty lists, dropping the
\* initiatives and epics too, and main returns False.
C3_FailureHandling ==
    (returned # PyNone /\ returned.failed) =>
        /\ Len(returned.sent) = Len(returned.pages) + 1
        /\ returned.op = "initiatives" =>
              /\ returned.value = Concat(returned.pages)
              /\ initiatives = returned.value
        /\ returned.op = "epics" =>
              /\ returned.value = Concat(returned.pages)
              /\ Len(all_epics) >= Len(returned.value)
              /\ SubSeq(all_epics, Len(all_epics) - Len(returned.value) + 1,
                        Len(all_epics)) = returned.value
        /\ returned.op = "children" =>
              /\ returned.value = <<>>
              /\ fetched = EmptyTriple
              /\ main_result = "False"

\* an epics fetch has failed on its second request and returned the record
\* of its first page
C3_Witness ==
    /\ returned # PyNone
    /\ returned.failed
    /\ returned.op = "epics"
    /\ Len(returned.pages) = 1
    /\ Len(returned.value) = 1
    /\ all_epics = returned.value

\* C4: a fetch none of whose requests fails sends its first request without
\* a token and every later one with the token of the response before it,
\* goes on for as long as the responses carry a token (None and '' carry
\* none), requests each page once, and returns the records of all pages in
\* the order received.
C4_Pagination ==
    /\ (returned # PyNone /\ ~returned.failed) =>
          LET n == Len(returned.pages)
          IN  /\ returned.value = Concat(returned.pages)
              /\ Len(returned.sent) = n
              /\ Len(returned.got) = n
              /\ returned.sent[1] = PyNone
              /\ \A k \in 1..(n - 1) :
                    /\ Truthy(returned.got[k])
                    /\ returned.sent[k + 1] = returned.got[k]
              /\ ~Truthy(returned.got[n])
    /\ Fetching =>
          /\ all_issues = Concat(pages)
          /\ Len(tokens_sent) = Len(pages)
          /\ Len(tokens_got) = Len(pages)
          /\ \A k \in 1..Len(pages) :
                /\ Truthy(tokens_got[k])
                /\ tokens_sent[k] = (IF k = 1 THEN PyNone ELSE tokens_got[k - 1])
          /\ next_page_token = (IF Len(pages) = 0 THEN PyNone ELSE tokens_got[Len(pages)])

\* the child issues came in three pages, the first and the last with a record
C4_Witness ==
    /\ returned # PyNone
    /\ ~returned.failed
    /\ returned.op = "children"
    /\ Len(returned.pages) = 3
    /\ Len(returned.pages[1]) = 1
    /\ Len(returned.pages[3]) = 1
    /\ Len(fetched.issues) >= 2

MissingCredentials == JIRA_EMAIL = "" \/ JIRA_API_TOKEN = ""

\* C5: main returns True only if at least one child issue was fetched.  With
\* a credential missing no request is posted; then, and when the child-issue
\* fetch fails or yields no issue, main returns False and docs/index.html is
\* never opened for writing.
C5_SuccessNeedsIssues ==
    /\ main_result = "True" =>
          /\ fetched # PyNone
          /\ Len(fetched.issues) >= 1
          /\ returned.op = "children"
          /\ ~returned.failed
    /\ MissingCredentials =>
          /\ requests = 0
          /\ artifact = previous_artifact
          /\ main_result \in {"running", "False"}
          /\ pc = "exit" => main_result = "False"
    /\ ( /\ returned # PyNone
         /\ returned.op = "children"
         /\ returned.failed \/ Len(Concat(returned.pages)) = 0 ) =>
          /\ main_result = "False"
          /\ pc = "exit"
          /\ html = PyNone
          /\ artifact = previous_artifact

\* the child-issue fetch succeeded with no issue and main returned False
\* over an existing document
C5_Witness ==
    /\ returned # PyNone
    /\ returned.op = "children"
    /\ ~returned.failed
    /\ returned.value = <<>>
    /\ Len(initiatives) > 0
    /\ main_result = "False"
    /\ artifact = "previous"

\* C6: a run that ends in failure, at whatever step, leaves the document
\* written by an earlier run as it was, and a run that succeeds leaves the
\* complete new document.
C6_FailedRunLeavesArtifact ==
    /\ (main_result \in {"False", "raised"} /\ previous_artifact = "previous")
          => artifact = "previous"
    /\ main_result = "True" => artifact = "new"
====
